---- MODULE Spec2Model ----
(***************************************************************************)
(* Game_Arcade: the Tic-Tac-Toe decision engine (tic_tac_toe.py) and the   *)
(* player ledger (game_suite.py).                                          *)
(*                                                                         *)
(* The specifications share the variables:                                 *)
(*   Spec        the ledger operations of GameSuite reached from the menus *)
(*   SpecLoad    the program started on a players.json it finds, run and   *)
(*               started again                                             *)
(*   SpecRound   TicTacToe.play_game: difficulty selection and one round   *)
(*   SpecSearch  get_best_move applied to every board that alternating     *)
(*               legal play can produce                                    *)
(*   SpecMinimax minimax applied to the same boards                        *)
(*   SpecSelect  get_ai_move applied to the same boards                    *)
(*   SpecMove    make_move called with any position                        *)
(*   SpecScore   calculate_score called with every outcome and tier        *)
(*   SpecMenu    Spec with the read-only views of the menus                *)
(*   SpecInPlace get_best_move and minimax run on the live board, with the *)
(*               board threaded through every try and undo                 *)
(*   SpecLedger  SpecLoad with delete_player among the operations          *)
(*   SpecRoundLive  SpecRound without cancellation, under the fairness that *)
(*               every turn is eventually taken                            *)
(***************************************************************************)
EXTENDS Integers, Sequences, FiniteSets, Bags, TLC

VARIABLES
    players,             \* GameSuite.players: the dict, in insertion order
    current_player,      \* GameSuite.current_player: None, the key of the Player object
                         \* in players, or Detached
    detached,            \* the Player object current_player refers to when it is no
                         \* longer in players: << >> or <<object>>
    file,                \* the durable file players.json
    failed_saves,        \* history: how many calls of save_players have failed
    recorded,            \* history: per key, the bag of (game, score) pairs passed to add_score
    board,               \* TicTacToe.board
    ttt_current_player,  \* TicTacToe.current_player
    moves_taken,         \* play_round's local moves_taken
    difficulty,          \* TicTacToe.difficulty
    pc,                  \* where the program is
    last                 \* the operation that ran last, its inputs and what it returned

vars == <<players, current_player, detached, file, failed_saves, recorded, board,
          ttt_current_player, moves_taken, difficulty, pc, last>>

ledgerVars == <<players, current_player, detached, file, failed_saves, recorded>>
gameVars == <<board, ttt_current_player, moves_taken, difficulty>>

None == "None"

\* current_player refers to an object that is not a value of players
Detached == "<detached>"

(***************************************************************************)
(* tic_tac_toe.py: board and rules                                         *)
(***************************************************************************)
Cells == 0..8

human_player == "X"
ai_player == "O"

EmptyBoard == [i \in Cells |-> " "]

\* win_combinations, one disjunct per combination: rows, columns, diagonals
is_winner(b, player) ==
    \/ b[0] = player /\ b[1] = player /\ b[2] = player
    \/ b[3] = player /\ b[4] = player /\ b[5] = player
    \/ b[6] = player /\ b[7] = player /\ b[8] = player
    \/ b[0] = player /\ b[3] = player /\ b[6] = player
    \/ b[1] = player /\ b[4] = player /\ b[7] = player
    \/ b[2] = player /\ b[5] = player /\ b[8] = player
    \/ b[0] = player /\ b[4] = player /\ b[8] = player
    \/ b[2] = player /\ b[4] = player /\ b[6] = player

is_board_full(b) == \A i \in Cells : b[i] # " "

\* the list comprehension yields the empty indices in ascending order
get_available_moves(b) == {i \in Cells : b[i] = " "}

\* evaluate_board without the test for the human's line
evaluate_board_ai_only(b) == IF is_winner(b, ai_player) THEN 10 ELSE 0

evaluate_board(b) ==
    IF is_winner(b, ai_player) THEN 10
    ELSE IF is_winner(b, human_player) THEN -10
    ELSE 0

max(a, b) == IF a > b THEN a ELSE b

\* best_score after a loop `best_score = max(score, best_score)` over the scores
\* S, from the starting value that is in S
FoldMax(S) == CHOOSE x \in S : \A y \in S : y <= x

\* the minimizing loop written with max in place of min
FoldMinWithMax(S) == CHOOSE x \in S : \A y \in S : y <= x

\* best_score after a loop `best_score = min(score, best_score)` over the scores S
FoldMin(S) == CHOOSE x \in S : \A y \in S : x <= y

RECURSIVE minimax(_, _, _)

\* the scores the loop of minimax sees: one recursive call per available move,
\* made on the board with that move tried and undone afterwards
ChildScores(b, depth, is_maximizing) ==
    {minimax([b EXCEPT ![move] = IF is_maximizing THEN ai_player ELSE human_player],
             depth + 1, ~is_maximizing) : move \in get_available_moves(b)}

\* minimax with a terminal score shaped by depth (10 - depth, depth - 10)
minimax_depth_shaped(b, depth, is_maximizing) ==
    LET score == evaluate_board(b) IN
    IF score = 10 THEN score - depth
    ELSE IF score = -10 THEN score + depth
    ELSE IF is_board_full(b) THEN 0
    ELSE IF is_maximizing THEN FoldMax({-1000} \cup ChildScores(b, depth, TRUE))
    ELSE FoldMin({1000} \cup ChildScores(b, depth, FALSE))

minimax(b, depth, is_maximizing) ==
    LET score == evaluate_board(b) IN
    IF score = 10 \/ score = -10 THEN score
    ELSE IF is_board_full(b) THEN 0
    ELSE IF is_maximizing THEN FoldMax({-1000} \cup ChildScores(b, depth, TRUE))
    ELSE FoldMin({1000} \cup ChildScores(b, depth, FALSE))

\* the test with >= in place of >
BetterOrEqual(score, best_score) == score >= best_score

\* the test that replaces best_move: strictly greater, so the first of equals stays
Better(score, best_score) == score > best_score

RECURSIVE BestMoveLoop(_, _, _, _)

\* the for loop of get_best_move at index i
BestMoveLoop(b, i, best_score, best_move) ==
    IF i > 8 THEN best_move
    ELSE IF b[i] # " " THEN BestMoveLoop(b, i + 1, best_score, best_move)
    ELSE LET score == minimax([b EXCEPT ![i] = ai_player], 0, FALSE) IN
         IF Better(score, best_score)
         THEN BestMoveLoop(b, i + 1, score, i)
         ELSE BestMoveLoop(b, i + 1, best_score, best_move)

\* get_best_move with best_score starting at the lowest board value
get_best_move_from_minus_10(b) == BestMoveLoop(b, 0, -10, -1)

get_best_move(b) == BestMoveLoop(b, 0, -1000, -1)


\* random.choice over the available moves: every member is a possible result
get_random_move(b) ==
    IF get_available_moves(b) # {} THEN get_available_moves(b) ELSE {-1}

\* smart_moves in hundredths; random.random() is drawn in hundredths of [0, 1)
difficulties ==
    [c \in {"1", "2", "3"} |->
        CASE c = "1" -> [name |-> "Easy", smart_moves |-> 30, score_multiplier |-> 1]
          [] c = "2" -> [name |-> "Medium", smart_moves |-> 70, score_multiplier |-> 2]
          [] c = "3" -> [name |-> "Hard", smart_moves |-> 100, score_multiplier |-> 3]]

\* self.difficulty = None, as a record so that it compares with the tiers
NoDifficulty == [name |-> None, smart_moves |-> 0, score_multiplier |-> 0]

\* values of random.random(), in hundredths: around each threshold and the ends
RandomDraws == {0, 29, 30, 69, 70, 99}

\* get_ai_move with <= in place of < in the test of the draw
get_ai_move_inclusive(b, diff, r, best_move) ==
    IF diff = NoDifficulty THEN {best_move}
    ELSE IF r <= diff.smart_moves THEN {best_move}
    ELSE get_random_move(b)

\* the set of values get_ai_move can return when random.random() returns r;
\* best_move is the value of get_best_move(b), used only where the code calls it
get_ai_move(b, diff, r, best_move) ==
    IF diff = NoDifficulty THEN {best_move}
    ELSE IF r < diff.smart_moves THEN {best_move}
    ELSE get_random_move(b)

\* board[position] on the list of nine cells: a negative position counts from
\* the end of the list, and a position outside -9..8 raises IndexError
InListRange(position) == -9 <= position /\ position <= 8
ListIndex(position) == IF position < 0 THEN position + 9 ELSE position

\* make_move: the board after the call, the value returned and the exception
\* that leaves it
make_move(b, position, player) ==
    IF ~InListRange(position) THEN [board |-> b, ret |-> FALSE, raised |-> "IndexError"]
    ELSE IF b[ListIndex(position)] = " "
    THEN [board |-> [b EXCEPT ![ListIndex(position)] = player], ret |-> TRUE,
          raised |-> None]
    ELSE [board |-> b, ret |-> FALSE, raised |-> None]

\* base_scores with the values of 'win' and 'tie' exchanged
base_scores_tie_first(result) ==
    CASE result = "win" -> 500
      [] result = "tie" -> 1000
      [] result = "lose" -> 100

base_scores(result) ==
    CASE result = "win" -> 1000
      [] result = "tie" -> 500
      [] result = "lose" -> 100

\* calculate_score with a bonus that grows with the moves taken
calculate_score_slow_bonus(result, moves, difficulty_multiplier) ==
    LET base_score == base_scores(result)
        move_bonus == IF result = "win" THEN max(0, moves * 50) ELSE 0
        difficulty_bonus == difficulty_multiplier * 200
    IN  base_score + move_bonus + difficulty_bonus

calculate_score(result, moves, difficulty_multiplier) ==
    LET base_score == base_scores(result)
        move_bonus == IF result = "win" THEN max(0, (9 - moves) * 50) ELSE 0
        difficulty_bonus == difficulty_multiplier * 200
    IN  base_score + move_bonus + difficulty_bonus

(***************************************************************************)
(* game_suite.py: Player and the ledger                                    *)
(***************************************************************************)
Today == "2026-11-04"

\* Player.__init__
Player(name) ==
    [name |-> name, games_played |-> 0, total_score |-> 0, high_scores |-> << >>,
     achievements |-> << >>, created_date |-> Today]

\* the test with >= in place of >
IsBetterOrEqual(p, game_name, score) ==
    game_name \notin DOMAIN p.high_scores \/ score >= p.high_scores[game_name]

\* the test of add_score that decides a new high score
IsBetter(p, game_name, score) ==
    game_name \notin DOMAIN p.high_scores \/ score > p.high_scores[game_name]

\* add_score that adds the score without counting the game
add_score_uncounted(p, game_name, score) ==
    [player |-> [p EXCEPT !.total_score = @ + score], ret |-> FALSE]

\* add_score storing every score as the high score
add_score_always_high(p, game_name, score) ==
    [player |-> [p EXCEPT !.games_played = @ + 1, !.total_score = @ + score,
                          !.high_scores = (game_name :> score) @@ @],
     ret |-> TRUE]

\* Player.add_score: the player after the call and the value returned
add_score(p, game_name, score) ==
    LET counted == [p EXCEPT !.games_played = @ + 1, !.total_score = @ + score] IN
    IF IsBetter(counted, game_name, score)
    THEN [player |-> [counted EXCEPT !.high_scores = (game_name :> score) @@ @],
          ret |-> TRUE]
    ELSE [player |-> counted, ret |-> FALSE]

\* Player.to_dict
to_dict(p) ==
    [name |-> p.name, games_played |-> p.games_played, total_score |-> p.total_score,
     high_scores |-> p.high_scores, achievements |-> p.achievements,
     created_date |-> p.created_date]

\* the keys of the dict, and the position of a key in insertion order
Keys(ps) == {ps[i].key : i \in DOMAIN ps}
IndexOf(ps, k) == CHOOSE i \in DOMAIN ps : ps[i].key = k
Get(ps, k) == ps[IndexOf(ps, k)].player
Put(ps, k, p) ==
    IF k \in Keys(ps) THEN [ps EXCEPT ![IndexOf(ps, k)].player = p]
    ELSE Append(ps, [key |-> k, player |-> p])
\* del that removes the first key of the dict, whatever key was chosen
DelFirst(ps, k) == Tail(ps)

Del(ps, k) == SelectSeq(ps, LAMBDA e : e.key # k)

\* Player.from_dict restoring nothing but the name
from_dict_name_only(data) ==
    IF data.type # "object" THEN [raised |-> "TypeError", player |-> Player("")]
    ELSE IF "name" \notin DOMAIN data.fields THEN [raised |-> "KeyError", player |-> Player("")]
    ELSE [raised |-> None, player |-> Player(data.fields["name"])]

\* data.get(field, default) on a JSON object
DictGet(fields, field, default) == IF field \in DOMAIN fields THEN fields[field] ELSE default

\* Player.from_dict on one value of the loaded document: data['name'] raises
\* TypeError when data is no object and KeyError when it has no 'name'; the
\* other fields are read with data.get and the defaults of the code
from_dict(data) ==
    IF data.type # "object" THEN [raised |-> "TypeError", player |-> Player("")]
    ELSE IF "name" \notin DOMAIN data.fields THEN [raised |-> "KeyError", player |-> Player("")]
    ELSE [raised |-> None,
          player |-> [name |-> data.fields["name"],
                      games_played |-> DictGet(data.fields, "games_played", 0),
                      total_score |-> DictGet(data.fields, "total_score", 0),
                      high_scores |-> DictGet(data.fields, "high_scores", << >>),
                      achievements |-> DictGet(data.fields, "achievements", << >>),
                      created_date |-> DictGet(data.fields, "created_date", Today)]]

\* what json.dump writes for the ledger: an object with one member per key, in
\* the order of the dict, each an object with the six fields of to_dict
Serialize(ps) ==
    [type |-> "object",
     items |-> [i \in DOMAIN ps |->
                   [key |-> ps[i].key,
                    value |-> [type |-> "object", fields |-> to_dict(ps[i].player)]]]]

\* save_players: open(..., 'w') truncates the file, json.dump writes it; any
\* Exception is caught and reported by the return value
SaveOutcomes == {"ok", "open_failed", "write_failed"}

\* save_players that reports success and leaves the file as it is
save_players_unwritten(ps, f, outcome) == [file |-> f, ret |-> outcome = "ok"]

save_players(ps, f, outcome) ==
    CASE outcome = "ok" -> [file |-> [kind |-> "json", data |-> Serialize(ps)], ret |-> TRUE]
      [] outcome = "open_failed" -> [file |-> f, ret |-> FALSE]
      [] outcome = "write_failed" -> [file |-> [kind |-> "partial"], ret |-> FALSE]

RECURSIVE LoadLoop(_, _, _)

\* the dict comprehension of load_players over data.items(), from member i on:
\* the first from_dict that raises ends it
LoadLoop(items, i, acc) ==
    IF i > Len(items) THEN [raised |-> None, players |-> acc]
    ELSE LET r == from_dict(items[i].value) IN
         IF r.raised # None THEN [raised |-> r.raised, players |-> << >>]
         ELSE LoadLoop(items, i + 1, Put(acc, items[i].key, r.player))

\* load_players: the ledger returned, or the exception that leaves the method.
\* A file that is no JSON text raises JSONDecodeError in json.load; a document
\* that is no object raises AttributeError at data.items(). JSONDecodeError and
\* KeyError are caught, a warning is printed and {} returned
load_players(f) ==
    IF f.kind = "missing" THEN [outcome |-> "missing", raised |-> None, players |-> << >>]
    ELSE IF f.kind = "partial"
    THEN [outcome |-> "warning", raised |-> None, players |-> << >>]
    ELSE IF f.data.type # "object"
    THEN [outcome |-> "raised", raised |-> "AttributeError", players |-> << >>]
    ELSE LET r == LoadLoop(f.data.items, 1, << >>) IN
         IF r.raised = None THEN [outcome |-> "loaded", raised |-> None, players |-> r.players]
         ELSE IF r.raised = "KeyError"
         THEN [outcome |-> "warning", raised |-> None, players |-> << >>]
         ELSE [outcome |-> "raised", raised |-> r.raised, players |-> << >>]

(***************************************************************************)
(* Inputs and bounds                                                       *)
(***************************************************************************)
\* what the user can type as a player name, after strip()
Names == {"Amy", "amy", ""}

\* the games that report to the ledger and the scores they report
Games == {"Tic-Tac-Toe", "Snake Game"}
Scores == {900, 1200}

\* no more calls of save_players fail than this
MaxFailedSaves == 1

\* the profiles of the ledger have played no more games than this in total
MaxGamesPlayed == 2

RECURSIVE TotalGamesPlayed(_)
TotalGamesPlayed(ps) ==
    IF ps = << >> THEN 0 ELSE Head(ps).player.games_played + TotalGamesPlayed(Tail(ps))

\* the ways the next save_players can end
SaveChoices(n) == IF n < MaxFailedSaves THEN SaveOutcomes ELSE {"ok"}
Failed(n, outcome) == IF outcome = "ok" THEN n ELSE n + 1

NoOp ==
    [op |-> "init", name |-> None, game |-> None, score |-> 0, outcome |-> "none",
     saved |-> "none", ret |-> FALSE, interrupt |-> "none", position |-> -1,
     value |-> 0, depth |-> 0, raised |-> None, moves |-> 0, multiplier |-> 0,
     player |-> None, best |-> -1]

(***************************************************************************)
(* GameSuite: construction and the ledger operations                       *)
(***************************************************************************)
\* GameSuite.__init__ with no players.json: load_players returns {}
Init ==
    /\ players = << >>
    /\ current_player = None
    /\ detached = << >>
    /\ file = [kind |-> "missing"]
    /\ failed_saves = 0
    /\ recorded = << >>
    /\ board = EmptyBoard
    /\ ttt_current_player = "X"
    /\ moves_taken = 0
    /\ difficulty = NoDifficulty
    /\ pc = "menu"
    /\ last = NoOp

\* create_player without the test for an existing name
NoDuplicateTest(ps, name) == FALSE

\* the test `name in self.players`
HasPlayer(ps, name) == name \in Keys(ps)

\* the Player object self.current_player refers to
CurrentPlayerObject ==
    IF detached # << >> THEN detached[1] ELSE Get(players, current_player)

create_player(name) ==
    /\ pc = "menu"
    /\ IF name = ""
       THEN /\ last' = [NoOp EXCEPT !.op = "create_player", !.name = name,
                                    !.outcome = "empty"]
            /\ UNCHANGED ledgerVars
       ELSE IF HasPlayer(players, name)
       THEN /\ last' = [NoOp EXCEPT !.op = "create_player", !.name = name,
                                    !.outcome = "duplicate"]
            /\ UNCHANGED ledgerVars
       ELSE \E outcome \in SaveChoices(failed_saves) :
            LET ps == Put(players, name, Player(name))
                sv == save_players(ps, file, outcome)
            IN  /\ players' = ps
                /\ current_player' = name
                /\ detached' = << >>
                /\ file' = sv.file
                /\ failed_saves' = Failed(failed_saves, outcome)
                /\ recorded' = [k \in Keys(ps) |-> IF k = name THEN EmptyBag ELSE recorded[k]]
                /\ last' = [NoOp EXCEPT !.op = "create_player", !.name = name,
                                        !.outcome = "created", !.saved = outcome,
                                        !.ret = sv.ret]
    /\ UNCHANGED <<gameVars, pc>>

\* the user types text that is a number (choice) or is not (ValueError)
login_player(numeric, choice) ==
    /\ pc = "menu"
    /\ IF players = << >>
       THEN /\ last' = [NoOp EXCEPT !.op = "login_player", !.outcome = "no_players"]
            /\ UNCHANGED <<current_player, detached>>
       ELSE IF ~numeric
       THEN /\ last' = [NoOp EXCEPT !.op = "login_player", !.outcome = "not_a_number"]
            /\ UNCHANGED <<current_player, detached>>
       ELSE IF 1 <= choice /\ choice <= Len(players)
       THEN /\ current_player' = players[choice].key
            /\ detached' = << >>
            /\ last' = [NoOp EXCEPT !.op = "login_player", !.name = players[choice].key,
                                    !.outcome = "logged_in"]
       ELSE /\ last' = [NoOp EXCEPT !.op = "login_player", !.outcome = "invalid"]
            /\ UNCHANGED <<current_player, detached>>
    /\ UNCHANGED <<players, file, failed_saves, recorded, gameVars, pc>>

delete_player(numeric, choice, confirm) ==
    /\ pc = "menu"
    /\ IF players = << >>
       THEN /\ last' = [NoOp EXCEPT !.op = "delete_player", !.outcome = "no_players"]
            /\ UNCHANGED ledgerVars
       ELSE IF ~numeric
       THEN /\ last' = [NoOp EXCEPT !.op = "delete_player", !.outcome = "not_a_number"]
            /\ UNCHANGED ledgerVars
       ELSE IF ~(1 <= choice /\ choice <= Len(players))
       THEN /\ last' = [NoOp EXCEPT !.op = "delete_player", !.outcome = "invalid"]
            /\ UNCHANGED ledgerVars
       ELSE IF confirm # "y"
       THEN /\ last' = [NoOp EXCEPT !.op = "delete_player",
                                    !.name = players[choice].key,
                                    !.outcome = "not_confirmed"]
            /\ UNCHANGED ledgerVars
       ELSE \E outcome \in SaveChoices(failed_saves) :
            LET player_name == players[choice].key
                ps == Del(players, player_name)
                sv == save_players(ps, file, outcome)
            IN  /\ players' = ps
                /\ failed_saves' = Failed(failed_saves, outcome)
                /\ current_player' =
                       IF current_player # None /\ CurrentPlayerObject.name = player_name
                       THEN None
                       ELSE IF current_player = player_name THEN Detached
                       ELSE current_player
                /\ detached' =
                       IF current_player # None /\ CurrentPlayerObject.name = player_name
                       THEN << >>
                       ELSE IF current_player = player_name
                       THEN <<Get(players, player_name)>>
                       ELSE detached
                /\ file' = sv.file
                /\ recorded' = [k \in Keys(ps) |-> recorded[k]]
                /\ last' = [NoOp EXCEPT !.op = "delete_player", !.name = player_name,
                                        !.outcome = "deleted", !.saved = outcome,
                                        !.ret = sv.ret]
    /\ UNCHANGED <<gameVars, pc>>

\* GameSuite.record_game_score as a function of the ledger: the ledger after the
\* call, the value returned and whether add_score ran
RecordGameScore(ps, cur, f, game_name, score, outcome) ==
    IF cur = None
    THEN [players |-> ps, file |-> f, ret |-> FALSE, added |-> FALSE, saved |-> "none"]
    ELSE LET a == add_score(Get(ps, cur), game_name, score)
             ps2 == Put(ps, cur, a.player)
             sv == save_players(ps2, f, outcome)
         IN  [players |-> ps2, file |-> sv.file, ret |-> a.ret, added |-> TRUE,
              saved |-> outcome]

\* a game other than through play_round reports a score; the games start only
\* when a player is logged in
record_game_score(game_name, score) ==
    /\ pc = "menu"
    /\ current_player # None
    /\ TotalGamesPlayed(players)
           + (IF detached = << >> THEN 0 ELSE detached[1].games_played) < MaxGamesPlayed
    /\ \E outcome \in SaveChoices(failed_saves) :
       IF detached # << >>
       THEN LET a == add_score(detached[1], game_name, score)
                sv == save_players(players, file, outcome)
            IN  /\ detached' = <<a.player>>
                /\ file' = sv.file
                /\ failed_saves' = Failed(failed_saves, outcome)
                /\ UNCHANGED <<players, recorded>>
                /\ last' = [NoOp EXCEPT !.op = "record_game_score", !.name = current_player,
                                        !.game = game_name, !.score = score,
                                        !.outcome = "recorded", !.saved = outcome,
                                        !.ret = a.ret]
       ELSE
       LET rec == RecordGameScore(players, current_player, file, game_name, score, outcome)
       IN  /\ players' = rec.players
           /\ file' = rec.file
           /\ failed_saves' = Failed(failed_saves, outcome)
           /\ recorded' = [recorded EXCEPT ![current_player] =
                               @ (+) SetToBag({<<game_name, score>>})]
           /\ last' = [NoOp EXCEPT !.op = "record_game_score", !.name = current_player,
                                   !.game = game_name, !.score = score,
                                   !.outcome = "recorded", !.saved = rec.saved,
                                   !.ret = rec.ret]
           /\ UNCHANGED detached
    /\ UNCHANGED <<current_player, gameVars, pc>>

\* the numbers the user can type at a "Select player" prompt
Choices == -1..Cardinality(Names)

Next ==
    \/ \E name \in Names : create_player(name)
    \/ \E choice \in Choices : login_player(TRUE, choice)
    \/ login_player(FALSE, 0)
    \/ \E choice \in Choices, confirm \in {"y", "n"} : delete_player(TRUE, choice, confirm)
    \/ delete_player(FALSE, 0, "n")
    \/ \E game_name \in Games, score \in Scores : record_game_score(game_name, score)

Spec == Init /\ [][Next]_vars

(***************************************************************************)
(* The menus with the operations that only show the ledger                  *)
(***************************************************************************)
\* view_all_players, view_high_scores and view_statistics print from
\* self.players and assign nothing
view(which) ==
    /\ pc = "menu"
    /\ last' = [NoOp EXCEPT !.op = which,
                            !.outcome = IF players = << >> THEN "no_players" ELSE "shown"]
    /\ UNCHANGED <<ledgerVars, gameVars, pc>>

Views == {"view_all_players", "view_high_scores", "view_statistics"}

NextMenu ==
    \/ Next
    \/ \E which \in Views : view(which)

SpecMenu == Init /\ [][NextMenu]_vars

(***************************************************************************)
(* The program started on a players.json left by an earlier run or edited   *)
(* by hand, and started again after it has run                             *)
(***************************************************************************)
\* a profile written on an earlier day, with a score, and one whose key in the
\* file is not its name
Bob ==
    [name |-> "Bob", games_played |-> 1, total_score |-> 900,
     high_scores |-> ("Snake Game" :> 900), achievements |-> <<"First Win">>,
     created_date |-> "2025-01-15"]

JsonObject(fields) == [type |-> "object", fields |-> fields]
JsonFile(doc) == [kind |-> "json", data |-> doc]
JsonDict(items) == [type |-> "object", items |-> items]

\* what players.json can hold when the program starts
Files ==
    { [kind |-> "missing"],
      [kind |-> "partial"],
      JsonFile([type |-> "array"]),
      JsonFile([type |-> "null"]),
      JsonFile(JsonDict(<< >>)),
      JsonFile(JsonDict(<<[key |-> "Bob", value |-> [type |-> "number"]]>>)),
      JsonFile(JsonDict(<<[key |-> "Bob", value |-> JsonObject(to_dict(Bob))],
                          [key |-> "amy", value |-> [type |-> "string"]]>>)),
      JsonFile(JsonDict(<<[key |-> "Bob", value |-> JsonObject([games_played |-> 1])]>>)),
      JsonFile(JsonDict(<<[key |-> "Bob", value |-> JsonObject([games_played |-> 1])],
                          [key |-> "amy", value |-> [type |-> "null"]]>>)),
      JsonFile(JsonDict(<<[key |-> "Bob", value |-> JsonObject(to_dict(Bob))]>>)),
      JsonFile(JsonDict(<<[key |-> "Bob", value |-> JsonObject(to_dict(Bob))],
                          [key |-> "amy", value |-> JsonObject([name |-> "Amy"])]>>)) }

InitLoad ==
    /\ players = << >>
    /\ current_player = None
    /\ detached = << >>
    /\ file \in Files
    /\ failed_saves = 0
    /\ recorded = << >>
    /\ board = EmptyBoard
    /\ ttt_current_player = "X"
    /\ moves_taken = 0
    /\ difficulty = NoDifficulty
    /\ pc = "start"
    /\ last = NoOp

\* GameSuite.__init__: at the start of the program, and of the next run after
\* the program has exited from the menu. An exception of load_players leaves
\* the constructor and ends the program
GameSuiteInit ==
    /\ pc \in {"start", "menu"}
    /\ LET l == load_players(file) IN
       /\ players' = l.players
       /\ recorded' = [k \in Keys(l.players) |-> EmptyBag]
       /\ pc' = IF l.raised = None THEN "menu" ELSE "crashed"
       /\ last' = [NoOp EXCEPT !.op = "load_players", !.outcome = l.outcome,
                               !.raised = l.raised]
    /\ current_player' = None
    /\ detached' = << >>
    /\ UNCHANGED <<file, failed_saves, gameVars>>

NextLoad ==
    \/ GameSuiteInit
    \/ \E name \in Names : create_player(name)
    \/ \E choice \in Choices : login_player(TRUE, choice)
    \/ \E game_name \in Games, score \in Scores : record_game_score(game_name, score)

SpecLoad == InitLoad /\ [][NextLoad]_vars

\* the same runs with delete_player among the menu operations
NextLedger ==
    \/ NextLoad
    \/ \E choice \in Choices : delete_player(TRUE, choice, "y")

SpecLedger == InitLoad /\ [][NextLedger]_vars

(***************************************************************************)
(* TicTacToe.play_game: select_difficulty, then play_round                 *)
(***************************************************************************)
TicTacToeName == "Tic-Tac-Toe"

\* run_tictactoe starts with a player logged in: here the player created at startup
RoundStartPlayers == <<[key |-> "Amy", player |-> Player("Amy")]>>
RoundStartFile == [kind |-> "json", data |-> Serialize(RoundStartPlayers)]

InitRound ==
    /\ players = RoundStartPlayers
    /\ current_player = "Amy"
    /\ detached = << >>
    /\ file = RoundStartFile
    /\ failed_saves = 0
    /\ recorded = [k \in {"Amy"} |-> EmptyBag]
    /\ board = EmptyBoard
    /\ ttt_current_player = "X"
    /\ moves_taken = 0
    /\ difficulty = NoDifficulty
    /\ pc = "select"
    /\ last = NoOp

\* select_difficulty returns on a valid choice; play_round then resets the board
select_difficulty(choice) ==
    /\ pc = "select"
    /\ choice \in DOMAIN difficulties
    /\ difficulty' = difficulties[choice]
    /\ board' = EmptyBoard
    /\ ttt_current_player' = "X"
    /\ moves_taken' = 0
    /\ pc' = "playing"
    /\ last' = [NoOp EXCEPT !.op = "select_difficulty"]
    /\ UNCHANGED ledgerVars

\* the outcome tests without the tests for a completed line
RoundResultTieOnly(b) == IF is_board_full(b) THEN "tie" ELSE "continue"

\* the outcome tests with the full-board test first
RoundResultTieFirst(b) ==
    IF is_board_full(b) THEN "tie"
    ELSE IF is_winner(b, human_player) THEN "win"
    ELSE IF is_winner(b, ai_player) THEN "lose"
    ELSE "continue"

\* the outcome tests without the test for a full board
RoundResultNoTie(b) ==
    IF is_winner(b, human_player) THEN "win"
    ELSE IF is_winner(b, ai_player) THEN "lose"
    ELSE "continue"

\* the outcome tests of play_round, in the order of the if / elif chain
RoundResult(b) ==
    IF is_winner(b, human_player) THEN "win"
    ELSE IF is_winner(b, ai_player) THEN "lose"
    ELSE IF is_board_full(b) THEN "tie"
    ELSE "continue"

\* where a KeyboardInterrupt can arrive once the round has its outcome: none, or
\* before record_game_score is called, inside add_score after line 18 or 19,
\* before save_players opens the file, while json.dump writes, or after the save
InterruptPoints ==
    {"none", "display", "add_score_19", "add_score_22", "save_players", "json_dump",
     "print"}

\* the player object when add_score is interrupted before the given line
add_score_until(p, game_name, score, point) ==
    IF point = "add_score_19" THEN [p EXCEPT !.games_played = @ + 1]
    ELSE IF point = "add_score_22"
    THEN [p EXCEPT !.games_played = @ + 1, !.total_score = @ + score]
    ELSE add_score(p, game_name, score).player

\* the switch that keeps the player to move
NoSwitch(player) == player

\* "Switch players" at the end of a loop iteration
SwitchPlayers(player) == IF player = human_player THEN ai_player ELSE human_player

\* the rest of a loop iteration of play_round after the move: b and moves are
\* the board and moves_taken after it
Conclude(op, b, moves) ==
    LET result == RoundResult(b) IN
    /\ board' = b
    /\ moves_taken' = moves
    /\ UNCHANGED <<difficulty, current_player, detached>>
    /\ IF result = "continue"
       THEN /\ ttt_current_player' = SwitchPlayers(ttt_current_player)
            /\ pc' = "playing"
            /\ last' = [NoOp EXCEPT !.op = op, !.outcome = "continue"]
            /\ UNCHANGED <<players, file, failed_saves, recorded>>
       ELSE LET score == calculate_score(result, moves, difficulty.score_multiplier) IN
            /\ pc' = "returned"
            /\ UNCHANGED ttt_current_player
            /\ \E point \in InterruptPoints :
               IF point = "none"
               THEN \E outcome \in SaveChoices(failed_saves) :
                    LET rec == RecordGameScore(players, current_player, file,
                                               TicTacToeName, score, outcome)
                    IN  /\ players' = rec.players
                        /\ file' = rec.file
                        /\ failed_saves' = Failed(failed_saves, outcome)
                        /\ recorded' = [recorded EXCEPT ![current_player] =
                                            @ (+) SetToBag({<<TicTacToeName, score>>})]
                        /\ last' = [NoOp EXCEPT !.op = op, !.outcome = result, !.score = score,
                                        !.game = TicTacToeName, !.saved = rec.saved,
                                        !.ret = rec.ret]
               ELSE IF point = "display"
               THEN /\ UNCHANGED <<players, file, failed_saves, recorded>>
                    /\ last' = [NoOp EXCEPT !.op = op, !.outcome = "cancelled", !.interrupt = point]
               ELSE IF point = "print"
               THEN \E outcome \in SaveChoices(failed_saves) :
                    LET rec == RecordGameScore(players, current_player, file,
                                               TicTacToeName, score, outcome)
                    IN  /\ players' = rec.players
                        /\ file' = rec.file
                        /\ failed_saves' = Failed(failed_saves, outcome)
                        /\ recorded' = [recorded EXCEPT ![current_player] =
                                            @ (+) SetToBag({<<TicTacToeName, score>>})]
                        /\ last' = [NoOp EXCEPT !.op = op, !.outcome = "cancelled", !.score = score,
                                        !.game = TicTacToeName, !.saved = rec.saved,
                                        !.interrupt = point]
               ELSE /\ players' = Put(players, current_player,
                                      add_score_until(Get(players, current_player),
                                                      TicTacToeName, score, point))
                    /\ file' = IF point = "json_dump" THEN [kind |-> "partial"] ELSE file
                    /\ UNCHANGED failed_saves
                    /\ recorded' = [recorded EXCEPT ![current_player] =
                                        @ (+) SetToBag({<<TicTacToeName, score>>})]
                    /\ last' = [NoOp EXCEPT !.op = op, !.outcome = "cancelled", !.score = score,
                                    !.game = TicTacToeName, !.interrupt = point]

\* the human's iteration: get_human_move returns an empty cell of 0..8
human_turn(position) ==
    /\ pc = "playing"
    /\ ttt_current_player = human_player
    /\ position \in Cells
    /\ board[position] = " "
    /\ Conclude("human_turn", make_move(board, position, human_player).board,
                moves_taken + 1)

\* the AI's iteration: random.random() returns r
ai_turn ==
    /\ pc = "playing"
    /\ ttt_current_player = ai_player
    /\ \E best_move \in {get_best_move(board)} :
       \E r \in RandomDraws :
       \E position \in get_ai_move(board, difficulty, r, best_move) :
           Conclude("ai_turn",
                    IF position # -1 THEN make_move(board, position, ai_player).board
                    ELSE board,
                    moves_taken)

\* KeyboardInterrupt while play_round waits: in input() or in time.sleep()
cancel ==
    /\ pc = "playing"
    /\ pc' = "returned"
    /\ last' = [NoOp EXCEPT !.op = "cancel", !.outcome = "cancelled",
                            !.interrupt = IF ttt_current_player = human_player
                                          THEN "input" ELSE "sleep"]
    /\ UNCHANGED <<ledgerVars, gameVars>>

NextRound ==
    \/ \E choice \in DOMAIN difficulties : select_difficulty(choice)
    \/ \E position \in Cells : human_turn(position)
    \/ ai_turn
    \/ cancel

SpecRound == InitRound /\ [][NextRound]_vars

\* the round in which the user does not cancel while play_round waits
NextRoundNoCancel ==
    \/ \E choice \in DOMAIN difficulties : select_difficulty(choice)
    \/ \E position \in Cells : human_turn(position)
    \/ ai_turn

\* the AI's iteration of the loop, once started, runs to its end: get_ai_move,
\* make_move and the outcome tests wait for nothing but time.sleep, and then
\* either the turn passes or the round returns
ai_turn_ends ==
    /\ pc = "playing"
    /\ ttt_current_player = ai_player
    /\ pc' \in {"playing", "returned"}
    /\ ttt_current_player' \in {human_player, ai_player}

\* the human eventually answers each prompt of a turn with a legal move, and
\* every iteration of the AI ends
SpecRoundLive ==
    /\ InitRound
    /\ [][NextRoundNoCancel]_vars
    /\ WF_vars(\E position \in Cells : human_turn(position))
    /\ WF_<<pc, ttt_current_player>>(ai_turn_ends)

(***************************************************************************)
(* The search functions on every board of alternating legal play           *)
(***************************************************************************)
\* minimax is called with depth 0, as get_best_move calls it, and with MaxDepth
MaxDepth == 3

InitSearch ==
    /\ players = << >>
    /\ current_player = None
    /\ detached = << >>
    /\ file = [kind |-> "missing"]
    /\ failed_saves = 0
    /\ recorded = << >>
    /\ board = EmptyBoard
    /\ ttt_current_player = "X"
    /\ moves_taken = 0
    /\ difficulty = NoDifficulty
    /\ pc = "search"
    /\ last = NoOp

\* one legal move of the player to move, X first, until a line is complete
place(position) ==
    /\ pc = "search"
    /\ board[position] = " "
    /\ ~is_winner(board, human_player)
    /\ ~is_winner(board, ai_player)
    /\ board' = make_move(board, position, ttt_current_player).board
    /\ ttt_current_player' =
           IF ttt_current_player = human_player THEN ai_player ELSE human_player
    /\ last' = [NoOp EXCEPT !.op = "place"]
    /\ UNCHANGED <<ledgerVars, moves_taken, difficulty, pc>>

\* get_best_move(board) with the AI to move, on a board just reached
call_get_best_move ==
    /\ pc = "search"
    /\ last.op \in {"init", "place"}
    /\ ttt_current_player = ai_player
    /\ last' = [NoOp EXCEPT !.op = "get_best_move", !.position = get_best_move(board)]
    /\ UNCHANGED <<ledgerVars, gameVars, pc>>

\* minimax(board, depth, is_maximizing) with the player to move, on a board
\* just reached
call_minimax(depth) ==
    /\ pc = "search"
    /\ last.op \in {"init", "place"}
    /\ last' = [NoOp EXCEPT !.op = "minimax", !.depth = depth,
                            !.value = minimax(board, depth,
                                              ttt_current_player = ai_player)]
    /\ UNCHANGED <<ledgerVars, gameVars, pc>>

NextSearch ==
    \/ \E position \in Cells : place(position)
    \/ call_get_best_move

SpecSearch == InitSearch /\ [][NextSearch]_vars

NextMinimax ==
    \/ \E position \in Cells : place(position)
    \/ \E depth \in {0, MaxDepth} : call_minimax(depth)

SpecMinimax == InitSearch /\ [][NextMinimax]_vars

\* get_ai_move(board) with the AI to move, on a board just reached, for every
\* value of self.difficulty and every draw of random.random(); best is what
\* get_best_move returns for the board
call_get_ai_move ==
    /\ pc = "search"
    /\ last.op \in {"init", "place"}
    /\ ttt_current_player = ai_player
    /\ \E best_move \in {get_best_move(board)} :
       \E diff \in {NoDifficulty} \cup {difficulties[c] : c \in DOMAIN difficulties} :
       \E r \in RandomDraws :
       \E position \in get_ai_move(board, diff, r, best_move) :
           last' = [NoOp EXCEPT !.op = "get_ai_move", !.name = diff.name, !.value = r,
                                !.position = position, !.best = best_move]
    /\ UNCHANGED <<ledgerVars, gameVars, pc>>

NextSelect ==
    \/ \E position \in Cells : place(position)
    \/ call_get_ai_move

SpecSelect == InitSearch /\ [][NextSelect]_vars

(***************************************************************************)
(* The search as it runs on the live board: each move is tried by an        *)
(* assignment to the list and undone by another after the recursive call    *)
(***************************************************************************)
\* the search that leaves the tried mark in the cell
NoUndo(b, move) == b

\* "Undo the move": board[move] = ' '
Undo(b, move) == [b EXCEPT ![move] = " "]

\* get_available_moves as the list the comprehension builds
AvailableList(b) == SelectSeq(<<0, 1, 2, 3, 4, 5, 6, 7, 8>>, LAMBDA i : b[i] = " ")

RECURSIVE minimax_in_place(_, _, _)
RECURSIVE MinimaxLoopInPlace(_, _, _, _, _)

\* the for loop of minimax over the list of moves built before the loop: the
\* score it returns and the board it leaves
MinimaxLoopInPlace(b, moves, depth, is_maximizing, best_score) ==
    IF moves = << >> THEN [score |-> best_score, board |-> b]
    ELSE LET move == Head(moves)
             r == minimax_in_place(
                      [b EXCEPT ![move] = IF is_maximizing THEN ai_player ELSE human_player],
                      depth + 1, ~is_maximizing)
             undone == Undo(r.board, move)
         IN  IF (is_maximizing /\ r.score > best_score)
                \/ (~is_maximizing /\ r.score < best_score)
             THEN MinimaxLoopInPlace(undone, Tail(moves), depth, is_maximizing, r.score)
             ELSE MinimaxLoopInPlace(undone, Tail(moves), depth, is_maximizing, best_score)

\* minimax: the score returned and the board as the call leaves it
minimax_in_place(b, depth, is_maximizing) ==
    LET score == evaluate_board(b) IN
    IF score = 10 \/ score = -10 THEN [score |-> score, board |-> b]
    ELSE IF is_board_full(b) THEN [score |-> 0, board |-> b]
    ELSE MinimaxLoopInPlace(b, AvailableList(b), depth, is_maximizing,
                            IF is_maximizing THEN -1000 ELSE 1000)

RECURSIVE BestMoveLoopInPlace(_, _, _, _)

\* the for loop of get_best_move: the move returned and the board as it is left
BestMoveLoopInPlace(b, moves, best_score, best_move) ==
    IF moves = << >> THEN [move |-> best_move, board |-> b]
    ELSE LET move == Head(moves)
             r == minimax_in_place([b EXCEPT ![move] = ai_player], 0, FALSE)
             undone == Undo(r.board, move)
         IN  IF Better(r.score, best_score)
             THEN BestMoveLoopInPlace(undone, Tail(moves), r.score, move)
             ELSE BestMoveLoopInPlace(undone, Tail(moves), best_score, best_move)

get_best_move_in_place(b) == BestMoveLoopInPlace(b, AvailableList(b), -1000, -1)

\* get_best_move(self.board) as play_round's get_ai_move calls it, on the live
\* board with the AI to move
call_get_best_move_in_place ==
    /\ pc = "search"
    /\ last.op \in {"init", "place"}
    /\ ttt_current_player = ai_player
    /\ LET r == get_best_move_in_place(board) IN
       /\ board' = r.board
       /\ last' = [NoOp EXCEPT !.op = "get_best_move", !.position = r.move]
    /\ UNCHANGED <<ledgerVars, ttt_current_player, moves_taken, difficulty, pc>>

\* minimax(self.board, 0, is_maximizing) on the live board for the player to move
call_minimax_in_place ==
    /\ pc = "search"
    /\ last.op \in {"init", "place"}
    /\ LET r == minimax_in_place(board, 0, ttt_current_player = ai_player) IN
       /\ board' = r.board
       /\ last' = [NoOp EXCEPT !.op = "minimax", !.value = r.score]
    /\ UNCHANGED <<ledgerVars, ttt_current_player, moves_taken, difficulty, pc>>

NextInPlace ==
    \/ \E position \in Cells : place(position)
    \/ call_get_best_move_in_place
    \/ call_minimax_in_place

SpecInPlace == InitSearch /\ [][NextInPlace]_vars

(***************************************************************************)
(* make_move called with any position on the boards of alternating play    *)
(***************************************************************************)
\* make_move is called with the positions -MaxPosition..MaxPosition
MaxPosition == 10

Positions == (0 - MaxPosition)..MaxPosition

\* make_move(board, position, player) for the player to move, while no line is
\* complete; the turn passes when the move was made
call_make_move(position) ==
    /\ pc = "search"
    /\ ~is_winner(board, human_player)
    /\ ~is_winner(board, ai_player)
    /\ LET m == make_move(board, position, ttt_current_player) IN
       /\ board' = m.board
       /\ ttt_current_player' =
              IF m.ret THEN (IF ttt_current_player = human_player THEN ai_player
                             ELSE human_player)
              ELSE ttt_current_player
       /\ last' = [NoOp EXCEPT !.op = "make_move", !.position = position,
                               !.player = ttt_current_player, !.ret = m.ret,
                               !.raised = m.raised]
    /\ UNCHANGED <<ledgerVars, moves_taken, difficulty, pc>>

NextMove == \E position \in Positions : call_make_move(position)

SpecMove == InitSearch /\ [][NextMove]_vars

(***************************************************************************)
(* calculate_score on every outcome, tier and number of moves              *)
(***************************************************************************)
\* calculate_score is called with moves_taken from 0 up to this
MaxMovesTaken == 12

Results == {"win", "tie", "lose"}
Multipliers == {difficulties[c].score_multiplier : c \in DOMAIN difficulties}

InitScore ==
    /\ players = << >>
    /\ current_player = None
    /\ detached = << >>
    /\ file = [kind |-> "missing"]
    /\ failed_saves = 0
    /\ recorded = << >>
    /\ board = EmptyBoard
    /\ ttt_current_player = "X"
    /\ moves_taken = 0
    /\ difficulty = NoDifficulty
    /\ pc = "score"
    /\ last = NoOp

call_calculate_score(result, moves, difficulty_multiplier) ==
    /\ pc = "score"
    /\ last' = [NoOp EXCEPT !.op = "calculate_score", !.outcome = result,
                            !.moves = moves, !.multiplier = difficulty_multiplier,
                            !.score = calculate_score(result, moves,
                                                      difficulty_multiplier)]
    /\ UNCHANGED <<ledgerVars, gameVars, pc>>

NextScore ==
    \E result \in Results, moves \in 0..MaxMovesTaken, difficulty_multiplier \in Multipliers :
        call_calculate_score(result, moves, difficulty_multiplier)

SpecScore == InitScore /\ [][NextScore]_vars

(***************************************************************************)
(* Reference definitions for the claims                                    *)
(***************************************************************************)
Other(player) == IF player = human_player THEN ai_player ELSE human_player

NonTerminal(b) ==
    /\ ~is_winner(b, human_player)
    /\ ~is_winner(b, ai_player)
    /\ \E i \in Cells : b[i] = " "

RECURSIVE CanForceWin(_, _, _)

\* player `who` has a strategy that completes a line of theirs, with `mover` to move
CanForceWin(b, who, mover) ==
    IF is_winner(b, who) THEN TRUE
    ELSE IF is_winner(b, Other(who)) \/ (\A i \in Cells : b[i] # " ") THEN FALSE
    ELSE IF mover = who
    THEN \E i \in Cells :
             b[i] = " " /\ CanForceWin([b EXCEPT ![i] = mover], who, Other(mover))
    ELSE \A i \in Cells :
             b[i] = " " => CanForceWin([b EXCEPT ![i] = mover], who, Other(mover))

\* the game-theoretic outcome from the AI's side
GameValue(b, mover) ==
    IF CanForceWin(b, ai_player, mover) THEN 10
    ELSE IF CanForceWin(b, human_player, mover) THEN -10
    ELSE 0

\* the players other than k, as they are
OthersUnchanged(k) ==
    /\ Len(players') = Len(players)
    /\ \A i \in DOMAIN players :
           /\ players'[i].key = players[i].key
           /\ players[i].key # k => players'[i] = players[i]

RECURSIVE BagSum(_)
\* the sum of the scores of a bag of (game, score) pairs
BagSum(B) ==
    IF DOMAIN B = {} THEN 0
    ELSE LET e == CHOOSE x \in DOMAIN B : TRUE
         IN  e[2] * B[e] + BagSum([x \in DOMAIN B \ {e} |-> B[x]])

ScoresOf(B, g) == {e[2] : e \in {x \in DOMAIN B : x[1] = g}}
GamesOf(B) == {e[1] : e \in DOMAIN B}
Maximum(S) == CHOOSE x \in S : \A y \in S : y <= x

(***************************************************************************)
(* Claims                                                                  *)
(***************************************************************************)
\* C1: when save_players fails during record_game_score, the players in memory
\* are what they were before the call
C1_AtomicRollback ==
    [][last'.op = "record_game_score" /\ last'.saved \in {"open_failed", "write_failed"}
       => players' = players]_vars

\* C2: on the Hard tier the human never has a completed line and the round
\* never returns 'win'
C2_HardNeverLoses ==
    difficulty.name = "Hard" =>
        /\ ~is_winner(board, human_player)
        /\ pc = "returned" => last.outcome # "win"

C2_Witness ==
    /\ difficulty.name = "Hard"
    /\ pc = "returned"
    /\ last.outcome = "tie"
    /\ is_board_full(board)

\* C3: for every board of alternating legal play and both depth arguments, the
\* value minimax returns is the game-theoretic outcome (+10 the AI forces a
\* win, -10 the human forces a win, 0 otherwise), one of -10, 0, 10
C3_MinimaxValue ==
    last.op = "minimax" =>
        /\ last.value = GameValue(board, ttt_current_player)
        /\ last.value \in {-10, 0, 10}

C3_Witness ==
    /\ last.op = "minimax"
    /\ last.depth = MaxDepth
    /\ last.value = -10
    /\ NonTerminal(board)
    /\ ttt_current_player = ai_player

\* C4: on a non-terminal board with the AI to move, if some move leaves the
\* human without a forced win, the move get_best_move returns is such a move
C4_Optimality ==
    last.op = "get_best_move" /\ NonTerminal(board) =>
        ((\E i \in get_available_moves(board) :
              ~CanForceWin([board EXCEPT ![i] = ai_player], human_player, human_player))
         => /\ last.position \in get_available_moves(board)
            /\ ~CanForceWin([board EXCEPT ![last.position] = ai_player],
                            human_player, human_player))

\* a board where some moves lose and the returned move does not
C4_Witness ==
    /\ last.op = "get_best_move"
    /\ NonTerminal(board)
    /\ last.position \in get_available_moves(board)
    /\ ~CanForceWin([board EXCEPT ![last.position] = ai_player],
                    human_player, human_player)
    /\ \E i \in get_available_moves(board) :
           CanForceWin([board EXCEPT ![i] = ai_player], human_player, human_player)

\* C5: on a non-terminal board get_best_move returns an empty cell of 0..8, and
\* so does get_ai_move for every tier and every random draw
C5_LegalMove ==
    last.op = "get_best_move" /\ NonTerminal(board) =>
        /\ last.position \in get_available_moves(board)
        /\ \A c \in DOMAIN difficulties, r \in RandomDraws :
               get_ai_move(board, difficulties[c], r, last.position)
                   \subseteq get_available_moves(board)
        /\ get_ai_move(board, NoDifficulty, 0, last.position)
               \subseteq get_available_moves(board)

\* a lost position: every move lets the human force a win, and a cell is returned
C5_Witness ==
    /\ last.op = "get_best_move"
    /\ NonTerminal(board)
    /\ last.position \in get_available_moves(board)
    /\ \A i \in get_available_moves(board) :
           CanForceWin([board EXCEPT ![i] = ai_player], human_player, human_player)

\* C6: the move get_best_move returns is the smallest index among the empty
\* cells whose resulting position has the greatest minimax value
C6_LowestIndexTieBreak ==
    last.op = "get_best_move" /\ get_available_moves(board) # {} =>
        LET value == [i \in get_available_moves(board) |->
                          minimax([board EXCEPT ![i] = ai_player], 0, FALSE)]
            best == {i \in DOMAIN value : \A j \in DOMAIN value : value[j] <= value[i]}
        IN  /\ last.position \in best
            /\ \A i \in best : last.position <= i

\* several moves share the greatest value and the returned one is not cell 0
C6_Witness ==
    /\ last.op = "get_best_move"
    /\ last.position > 0
    /\ \E i \in get_available_moves(board) :
           /\ i > last.position
           /\ minimax([board EXCEPT ![i] = ai_player], 0, FALSE)
                  = minimax([board EXCEPT ![last.position] = ai_player], 0, FALSE)

\* C7: record_game_score adds 1 to games_played and score to total_score of the
\* current player, stores score as the game's high score exactly when there was
\* none or score is strictly greater, returns TRUE exactly then, and leaves the
\* other games' high scores and the other players as they were
C7_RecordScore ==
    [][last'.op = "record_game_score" =>
          LET old == Get(players, current_player)
              new == Get(players', current_player)
              g == last'.game
              s == last'.score
              updated == g \notin DOMAIN old.high_scores \/ s > old.high_scores[g]
          IN  /\ new.games_played = old.games_played + 1
              /\ new.total_score = old.total_score + s
              /\ updated => /\ DOMAIN new.high_scores = DOMAIN old.high_scores \cup {g}
                            /\ new.high_scores[g] = s
              /\ ~updated => new.high_scores = old.high_scores
              /\ \A h \in DOMAIN old.high_scores \ {g} :
                     new.high_scores[h] = old.high_scores[h]
              /\ last'.ret = updated
              /\ new.name = old.name
              /\ OthersUnchanged(current_player)]_vars

\* a score equal to the previous high score was recorded and is no new high score
C7_Witness ==
    /\ last.op = "record_game_score"
    /\ last.ret = FALSE
    /\ Get(players, current_player).high_scores[last.game] = last.score
    /\ Get(players, current_player).total_score = 2 * last.score

\* C8: every profile's total_score is the sum and games_played the number of
\* the scores recorded for it, and high_scores holds, for exactly the games with
\* a recorded score, the greatest score recorded
C8_ProfileInvariant ==
    \A i \in DOMAIN players :
        LET p == players[i].player
            h == recorded[players[i].key]
        IN  /\ p.total_score = BagSum(h)
            /\ p.games_played = BagCardinality(h)
            /\ DOMAIN p.high_scores = GamesOf(h)
            /\ \A g \in GamesOf(h) : p.high_scores[g] = Maximum(ScoresOf(h, g))

\* two different scores recorded for one game, the lower one last, in a ledger
\* of two players
C8_Witness ==
    /\ last.op = "record_game_score"
    /\ \E i \in DOMAIN players, g \in Games :
           /\ Cardinality(ScoresOf(recorded[players[i].key], g)) = 2
           /\ players[i].player.high_scores[g] > last.score
    /\ Len(players) = 2

\* C9: a round that returns 'cancelled' leaves the players and the durable file
\* as they were when the round started
C9_CancelLeavesLedger ==
    pc = "returned" /\ last.outcome = "cancelled" =>
        /\ players = RoundStartPlayers
        /\ file = RoundStartFile

\* C10: create_player with a name that is a key of the ledger is rejected and
\* leaves the players, the current player and the durable file as they were
C10_DuplicateRejected ==
    [][last'.op = "create_player" /\ last'.name \in Keys(players)
       => /\ last'.outcome = "duplicate"
          /\ UNCHANGED <<players, current_player, file>>]_vars

\* "Amy" is rejected while "amy" is another player of the ledger
C10_Witness ==
    /\ last.op = "create_player"
    /\ last.outcome = "duplicate"
    /\ last.name = "Amy"
    /\ Keys(players) = {"Amy", "amy"}
    /\ current_player = "amy"

\* C11: when save_players fails during create_player or delete_player, the
\* players and the current player in memory are what they were before the call
C11_CreateDeleteRollback ==
    [][last'.op \in {"create_player", "delete_player"}
       /\ last'.saved \in {"open_failed", "write_failed"}
       => UNCHANGED <<players, current_player>>]_vars

\* C12: after every call of save_players, failed or not, the durable file holds
\* the complete content it had before the call or the complete serialization
\* of the ledger in memory
C12_SaveAllOrNothing ==
    [][last'.saved \in SaveOutcomes
       => \/ file' = file
          \/ file' = [kind |-> "json", data |-> Serialize(players')]]_vars

\* C13: when the program is started on the file that save_players wrote for the
\* ledger in memory, load_players returns a ledger with the same keys in the
\* same order and, per player, the same six fields, and saving that ledger
\* writes the same content again
C13_RoundTrip ==
    [][/\ last'.op = "load_players"
       /\ file = [kind |-> "json", data |-> Serialize(players)]
       => /\ last'.outcome = "loaded"
          /\ Len(players') = Len(players)
          /\ \A i \in DOMAIN players :
                 /\ players'[i].key = players[i].key
                 /\ players'[i].player.name = players[i].player.name
                 /\ players'[i].player.games_played = players[i].player.games_played
                 /\ players'[i].player.total_score = players[i].player.total_score
                 /\ players'[i].player.high_scores = players[i].player.high_scores
                 /\ players'[i].player.achievements = players[i].player.achievements
                 /\ players'[i].player.created_date = players[i].player.created_date
          /\ save_players(players', file, "ok").file = file]_vars

\* the ledger of an earlier day, with a key that is not the player's name, was
\* extended by a player who recorded a score, saved and loaded again
C13_Witness ==
    /\ last.op = "load_players"
    /\ last.outcome = "loaded"
    /\ file = [kind |-> "json", data |-> Serialize(players)]
    /\ Len(players) = 3
    /\ players[1].player = Bob
    /\ players[2].key = "amy" /\ players[2].player.name = "Amy"
    /\ players[3].player.games_played = 1
    /\ players[3].player.created_date = Today

\* the content is no JSON text, no mapping at the top, or has an entry that is
\* no object or has no name
Malformed(f) ==
    /\ f.kind # "missing"
    /\ \/ f.kind = "partial"
       \/ f.data.type # "object"
       \/ \E i \in DOMAIN f.data.items :
              \/ f.data.items[i].value.type # "object"
              \/ "name" \notin DOMAIN f.data.items[i].value.fields

\* C14: load_players never raises: on a missing file it returns an empty
\* ledger, and on every malformed content it returns an empty ledger with a
\* warning
C14_LoadNeverFatal ==
    last.op = "load_players" =>
        /\ last.raised = None
        /\ pc = "menu"
        /\ file.kind = "missing" => last.outcome = "missing" /\ players = << >>
        /\ Malformed(file) => last.outcome = "warning" /\ players = << >>

\* C15: a delete_player that deletes removes the chosen key, which was in the
\* ledger, and leaves every other profile and their order as they were; a
\* request with no valid number or no confirmation changes nothing; a key
\* enters the ledger only by create_player, and a delete that directly
\* follows a delete cannot delete the same name
C15_Delete ==
    [][/\ last'.op = "delete_player" =>
           IF last'.outcome = "deleted"
           THEN /\ last'.name \in Keys(players)
                /\ last'.name \notin Keys(players')
                /\ Keys(players') = Keys(players) \ {last'.name}
                /\ Len(players') = Len(players) - 1
                /\ \A k \in Keys(players') : Get(players', k) = Get(players, k)
                /\ \A k1, k2 \in Keys(players') :
                       IndexOf(players, k1) < IndexOf(players, k2)
                           => IndexOf(players', k1) < IndexOf(players', k2)
                /\ last.op = "delete_player" /\ last.outcome = "deleted"
                       => last'.name # last.name
           ELSE UNCHANGED <<players, current_player, file>>
       /\ \A k \in Keys(players') \ Keys(players) :
              last'.op = "create_player" /\ last'.name = k]_vars

\* the second of two players was deleted while the first, with a recorded
\* score, is logged in
C15_Witness ==
    /\ last.op = "delete_player"
    /\ last.outcome = "deleted"
    /\ last.name = "amy"
    /\ Keys(players) = {"Amy"}
    /\ Get(players, "Amy").games_played = 1
    /\ current_player = "Amy"

\* C16: of two calls of calculate_score with the same outcome and multiplier,
\* the one with at least as many moves returns no more when the outcome is a
\* win, and the same when it is a loss or a tie
C16_ScoreMonotone ==
    [][/\ last.op = "calculate_score"
       /\ last'.op = "calculate_score"
       /\ last'.outcome = last.outcome
       /\ last'.multiplier = last.multiplier
       /\ last'.moves >= last.moves
       => IF last.outcome = "win"
          THEN last'.score <= last.score
          ELSE last'.score = last.score]_vars

\* a win with more than nine moves has no bonus left
C16_Witness ==
    /\ last.op = "calculate_score"
    /\ last.outcome = "win"
    /\ last.moves > 9
    /\ last.score = 1000 + 200 * last.multiplier

\* the least score: a loss on the Easy tier
MinimumScore == calculate_score("lose", 0, 1)

\* C17: every score calculate_score returns is at least the positive minimum,
\* and for the same moves and multiplier a win scores more than a tie and a
\* tie more than a loss
C17_ScorePositiveOrdered ==
    last.op = "calculate_score" =>
        /\ MinimumScore > 0
        /\ last.score >= MinimumScore
        /\ calculate_score("win", last.moves, last.multiplier)
               > calculate_score("tie", last.moves, last.multiplier)
        /\ calculate_score("tie", last.moves, last.multiplier)
               > calculate_score("lose", last.moves, last.multiplier)

\* the minimum is returned
C17_Witness ==
    /\ last.op = "calculate_score"
    /\ last.outcome = "lose"
    /\ last.multiplier = 1
    /\ last.moves = MaxMovesTaken
    /\ last.score = MinimumScore

\* C18: make_move with an empty cell of 0..8 returns TRUE and sets exactly that
\* cell to the mark; with an occupied cell or any other position, negative
\* ones included, it reports failure and leaves the nine cells as they were
C18_MakeMoveRejectsIllegal ==
    [][last'.op = "make_move" =>
          IF last'.position \in Cells /\ board[last'.position] = " "
          THEN /\ last'.ret
               /\ board' = [board EXCEPT ![last'.position] = last'.player]
          ELSE /\ ~last'.ret
               /\ board' = board]_vars

\* C19: on a board that is full or has a completed line, get_ai_move returns
\* no cell index, whatever the tier and the draw
C19_NoMoveOnTerminal ==
    last.op = "get_ai_move" /\ ~NonTerminal(board) => last.position \notin Cells

\* the tier of a name
TierOf(name) == difficulties[CHOOSE c \in DOMAIN difficulties : difficulties[c].name = name]

\* C20: on a non-terminal board and a tier, a draw below smart_moves returns
\* the move of get_best_move; any other draw returns an empty cell, and every
\* empty cell can be returned; on the Hard tier every draw returns the move of
\* get_best_move
C20_DifficultyBlending ==
    last.op = "get_ai_move" /\ NonTerminal(board) /\ last.name # None =>
        /\ last.value < TierOf(last.name).smart_moves => last.position = last.best
        /\ last.value >= TierOf(last.name).smart_moves =>
               /\ last.position \in get_available_moves(board)
               /\ get_ai_move(board, TierOf(last.name), last.value, last.best)
                      = get_available_moves(board)
        /\ last.name = "Hard" => last.position = last.best
        /\ last.best \in get_available_moves(board)

\* the draw equal to the Easy threshold takes the random branch and returns a
\* cell that get_best_move does not
C20_Witness ==
    /\ last.op = "get_ai_move"
    /\ NonTerminal(board)
    /\ last.name = "Easy"
    /\ last.value = 30
    /\ last.position # last.best
    /\ last.position \in get_available_moves(board)

\* the number of cells of b that hold the mark
Count(b, mark) == Cardinality({i \in Cells : b[i] = mark})

\* C21: in every state of a round the board has as many X as O or one X more;
\* while the round is on, X is to move exactly when the counts are equal (so X
\* moves first and the players alternate), and moves_taken counts the X
C21_Alternation ==
    pc \in {"playing", "returned"} =>
        /\ \/ Count(board, "X") = Count(board, "O")
           \/ Count(board, "X") = Count(board, "O") + 1
        /\ moves_taken = Count(board, "X")
        /\ pc = "playing" =>
               /\ ttt_current_player = "X" <=> Count(board, "X") = Count(board, "O")
               /\ ttt_current_player = "O" <=> Count(board, "X") = Count(board, "O") + 1
               /\ board = EmptyBoard => ttt_current_player = "X"

\* the AI is to move for the fourth time
C21_Witness ==
    /\ pc = "playing"
    /\ ttt_current_player = "O"
    /\ Count(board, "X") = 4
    /\ Count(board, "O") = 3

\* C22: no state of a round has a completed line of X and a completed line of O
C22_SingleWinner ==
    pc \in {"playing", "returned"} =>
        ~(is_winner(board, "X") /\ is_winner(board, "O"))

\* O completed a line when six cells were marked
C22_Witness ==
    /\ pc = "returned"
    /\ is_winner(board, "O")
    /\ ~is_winner(board, "X")
    /\ Count(board, "O") = 3
    /\ last.outcome = "lose"

\* the eight winning lines, and the lines where a player has two marks and the
\* third cell is empty
Lines == {{0, 1, 2}, {3, 4, 5}, {6, 7, 8}, {0, 3, 6}, {1, 4, 7}, {2, 5, 8}, {0, 4, 8}, {2, 4, 6}}
Threats(b, who) ==
    {l \in Lines : /\ Cardinality({i \in l : b[i] = who}) = 2
                   /\ Cardinality({i \in l : b[i] = " "}) = 1}

\* C23: on a board with O to move where X has two marks in exactly one line
\* with the third cell empty and O has no line with two marks and the third
\* cell empty, get_best_move returns the empty cell of X's line
C23_Blocks ==
    /\ last.op = "get_best_move"
    /\ NonTerminal(board)
    /\ Cardinality(Threats(board, "X")) = 1
    /\ Threats(board, "O") = {}
    => \E l \in Threats(board, "X") : last.position \in l /\ board[last.position] = " "

\* C24: after a create_player, delete_player or record_game_score whose save
\* succeeds, the file holds the serialization of the whole ledger in memory;
\* login_player, the three views and a rejected create_player or delete_player
\* do not call save_players and leave the file as it is
C24_RewrittenInFull ==
    [][/\ last'.op \in {"create_player", "delete_player", "record_game_score"}
          /\ last'.saved = "ok"
          => file' = [kind |-> "json", data |-> Serialize(players')]
       /\ \/ last'.op \in Views \cup {"login_player"}
          \/ last'.op \in {"create_player", "delete_player"}
             /\ last'.outcome \notin {"created", "deleted"}
          => last'.saved = "none" /\ file' = file]_vars

\* a delete was saved: the file holds the one player left, with its score
C24_Witness ==
    /\ last.op = "delete_player"
    /\ last.saved = "ok"
    /\ Len(players) = 1
    /\ players[1].player.games_played = 2
    /\ file = [kind |-> "json", data |-> Serialize(players)]
    /\ file.data.items[1].value.fields.total_score = players[1].player.total_score

\* C25: no step of a game changes a cell that holds a mark, and every call of
\* get_best_move and of minimax on the live board returns with the nine cells
\* as they were when it was called
C25_MarksPermanent ==
    [][/\ \A i \in Cells : board[i] # " " => board'[i] = board[i]
       /\ last'.op \in {"get_best_move", "minimax"} => board' = board]_vars

\* the deepest search of a game: get_best_move after X's first move
C25_Witness ==
    /\ last.op = "get_best_move"
    /\ board = [EmptyBoard EXCEPT ![0] = "X"]
    /\ last.position = 4

\* C26: whenever play_round is about to ask a player for a move, no player has
\* a completed line and some cell is empty; the move get_ai_move returns is then
\* never -1 and is an empty cell, so make_move does not fail
C26_SelectorOnLiveBoard ==
    pc = "playing" =>
        /\ NonTerminal(board)
        /\ get_available_moves(board) # {}
        /\ ttt_current_player = ai_player =>
               \A best_move \in {get_best_move(board)} :
                   \A r \in RandomDraws :
                       \A position \in get_ai_move(board, difficulty, r, best_move) :
                           /\ position # -1
                           /\ make_move(board, position, ai_player).ret

\* the AI is asked for its last move of a round: two cells are empty
C26_Witness ==
    /\ pc = "playing"
    /\ last.op = "human_turn"
    /\ ttt_current_player = ai_player
    /\ Cardinality(get_available_moves(board)) = 2
    /\ get_best_move(board) \in get_available_moves(board)

\* C27: every move of a round that is not cut short by a cancellation is made
\* on a board with no completed line and an empty cell; after it the round
\* returns "win" iff X has a completed line, "lose" iff O has one, "tie" iff the
\* board is full with no completed line, and otherwise continues with the other
\* player to move
C27_EndsAtFirstTerminal ==
    [][/\ last'.op \in {"human_turn", "ai_turn"}
       /\ last'.outcome # "cancelled"
       => /\ NonTerminal(board)
          /\ last'.outcome \in {"win", "lose", "tie", "continue"}
          /\ last'.outcome = "win" <=> is_winner(board', "X")
          /\ last'.outcome = "lose" <=> is_winner(board', "O")
          /\ last'.outcome = "tie" <=>
                 /\ \A i \in Cells : board'[i] # " "
                 /\ ~is_winner(board', "X")
                 /\ ~is_winner(board', "O")
          /\ last'.outcome = "continue" <=> NonTerminal(board')
          /\ pc' = "returned" <=> last'.outcome # "continue"
          /\ last'.outcome = "continue" =>
                 /\ pc' = "playing"
                 /\ ttt_current_player' # ttt_current_player
                 /\ ttt_current_player' \in {"X", "O"}]_vars

\* X completes a line with the mark that fills the board: the round returns "win"
C27_Witness ==
    /\ pc = "returned"
    /\ last.op = "human_turn"
    /\ last.outcome = "win"
    /\ is_winner(board, "X")
    /\ \A i \in Cells : board[i] # " "

\* C28: the step on which a round returns win, lose or tie reaches a terminal
\* board and records one score for the logged-in player: games_played grows by
\* 1, total_score by the score computed for the outcome, and one score is
\* reported; while the round is in progress the ledger and the file are as
\* they were when it started and nothing has been reported
C28_OneScorePerRound ==
    [][/\ last'.outcome \in {"win", "lose", "tie"} =>
              /\ pc = "playing" /\ pc' = "returned"
              /\ ~NonTerminal(board')
              /\ current_player' = current_player
              /\ last'.score = calculate_score(last'.outcome, moves_taken',
                                               difficulty.score_multiplier)
              /\ Get(players', current_player).games_played =
                     Get(players, current_player).games_played + 1
              /\ Get(players', current_player).total_score =
                     Get(players, current_player).total_score + last'.score
              /\ recorded' = [recorded EXCEPT ![current_player] =
                                  @ (+) SetToBag({<<TicTacToeName, last'.score>>})]
              /\ BagCardinality(recorded'[current_player]) = 1
       /\ pc' = "playing" =>
              /\ players' = RoundStartPlayers
              /\ file' = RoundStartFile
              /\ recorded'[current_player'] = EmptyBag]_vars

\* a win on the Easy tier with X's third mark: 1500 points, one game
C28_Witness ==
    /\ pc = "returned"
    /\ last.outcome = "win"
    /\ last.score = 1500
    /\ moves_taken = 3
    /\ Get(players, current_player).games_played = 1
    /\ Get(players, current_player).total_score = 1500
    /\ recorded[current_player] = SetToBag({<<TicTacToeName, 1500>>})

C30_RoundTerminates ==
    /\ pc = "playing" ~> pc = "returned"
    /\ [](/\ Count(board, "X") <= 5
          /\ Count(board, "O") <= 4
          /\ moves_taken <= 5)

\* the longest round: it returns a tie with nine marks on the board
C30_Witness ==
    /\ pc = "returned"
    /\ last.outcome = "tie"
    /\ Count(board, "X") = 5
    /\ Count(board, "O") = 4
    /\ moves_taken = 5
====
